---- MODULE Spec2Model ----
(***************************************************************************)
(* Order / catalog backend: routes/orders (src/unnamed/part_000),          *)
(* routes/products.js, routes/auth.js and the flat-file helpers of         *)
(* utils/helpers.js.                                                       *)
(*                                                                         *)
(* Money is counted in units of 0.005 (half a cent), so that the 0.01      *)
(* tolerance of the total check is 2 units and both sides of the boundary  *)
(* are representable.  Quantities are counted in halves (2 = one piece,    *)
(* 1 = half a piece) so that non-integer quantities can be sent.  Catalog  *)
(* prices are whole cents (even numbers of units), hence price * quantity  *)
(* is always a whole number of units.                                      *)
(***************************************************************************)
EXTENDS Integers, Sequences, FiniteSets, TLC

VARIABLES
  products,   \* data/products.json: sequence of [id, name, price, category]
  orders,     \* data/orders.json: sequence of orders
  now,        \* Date.now()
  resp,       \* the last response sent, with the caller it was sent to
  lastRead,   \* the collections readData failed to read in the last handler
  lastWrite,  \* what writeData returned in the last handler
  users,      \* data/users.json: sequence of [id, name, email, role]
  registering \* register requests waiting on bcrypt, each with the users it read

vars == <<products, orders, now, resp, lastRead, lastWrite, users, registering>>

-----------------------------------------------------------------------------
(* Bounds of the model *)

MaxClock == 4
MaxOrders == 2
MaxProducts == 2
MaxItems == 2
MaxUsers == 2
MaxRegistering == 2

-----------------------------------------------------------------------------
(* Program constants *)

\* 0.01 in money units of 0.005 (part_000 line 63)
Tolerance == 2
\* one whole piece, in halves
QtyUnit == 2
\* userId || null (part_000 line 76): null is written 0
NoUser == 0
\* limit = 10 (part_000 lines 122, 156)
DefaultLimit == 10

\* password.length < 6 (auth.js line 19)
MinPasswordLength == 6

validStatuses == {"pending", "processing", "completed", "cancelled", "refunded"}

-----------------------------------------------------------------------------
(* utils/helpers.js *)

\* readData: the parsed file, or [] when reading or parsing throws
readData(stored, fail) == IF fail THEN << >> ELSE stored

\* writeData: the file after the call; unchanged when the write throws
writeData(stored, data, fail) == IF fail THEN stored ELSE data

\* writeData's return value
writeResult(fail) == IF fail THEN "failed" ELSE "ok"

-----------------------------------------------------------------------------
(* Array helpers of the runtime *)

Min(a, b) == IF a < b THEN a ELSE b
Max(a, b) == IF a > b THEN a ELSE b

\* Array.prototype.slice(start, end): negative indices count from the end,
\* both are clamped to [0, length]
slice(s, start, end) ==
  LET len == Len(s)
      from == IF start < 0 THEN Max(len + start, 0) ELSE Min(start, len)
      to == IF end < 0 THEN Max(len + end, 0) ELSE Min(end, len)
  IN IF from >= to THEN << >> ELSE SubSeq(s, from + 1, to)

\* Array.prototype.findIndex on p.id === id (1-based; 0 when absent)
RECURSIVE findIndexFrom(_, _, _)
findIndexFrom(s, id, i) ==
  IF i > Len(s) THEN 0
  ELSE IF s[i].id = id THEN i
  ELSE findIndexFrom(s, id, i + 1)

findIndex(s, id) == findIndexFrom(s, id, 1)

\* Array.prototype.splice(index, 1)
splice(s, i) == SubSeq(s, 1, i - 1) \o SubSeq(s, i + 1, Len(s))

\* Array.prototype.sort with (a, b) => new Date(b.createdAt) - new Date(a.createdAt):
\* stable, newest first.  insertByDate puts r behind every record that is
\* at least as new.
RECURSIVE insertByDate(_, _)
insertByDate(sorted, r) ==
  IF sorted = << >> THEN <<r>>
  ELSE IF Head(sorted).createdAt >= r.createdAt
       THEN <<Head(sorted)>> \o insertByDate(Tail(sorted), r)
       ELSE <<r>> \o sorted

RECURSIVE sortNewestFirst(_)
sortNewestFirst(s) ==
  IF s = << >> THEN << >>
  ELSE insertByDate(sortNewestFirst(SubSeq(s, 1, Len(s) - 1)), s[Len(s)])

\* Math.ceil(n / pageSize) as the handlers compute it; a zero divisor gives
\* Infinity (n > 0) or NaN (n = 0), a negative one is not sent by the model
ceilDiv(n, pageSize) ==
  IF pageSize = 0
  THEN [kind |-> IF n = 0 THEN "NaN" ELSE "Infinity", n |-> 0]
  ELSE [kind |-> "num", n |-> (n + pageSize - 1) \div pageSize]

-----------------------------------------------------------------------------
(* Responses *)

NoBody ==
  [recs |-> << >>, total |-> 0, page |-> 0, pageSize |-> 0,
   totalPages |-> [kind |-> "none", n |-> 0], calculated |-> 0, provided |-> 0,
   ref |-> 0, param |-> "", caller |-> [role |-> "none", userId |-> 0],
   req |-> [billing |-> FALSE, items |-> << >>, total |-> 0, userId |-> 0]]

\* res.status(code).json({ message })
Reply(op, code, msg) == [op |-> op, code |-> code, msg |-> msg] @@ NoBody

\* res.status(code).json({ message, order | product })
ReplyRecord(op, code, msg, rec) ==
  [op |-> op, code |-> code, msg |-> msg, recs |-> <<rec>>] @@ NoBody

\* res.json({ orders | products, total, page, pageSize, totalPages })
ReplyPage(op, recs, total, page, pageSize) ==
  [op |-> op, code |-> 200, msg |-> "", recs |-> recs, total |-> total,
   page |-> page, pageSize |-> pageSize,
   totalPages |-> ceilDiv(total, pageSize)] @@ NoBody

-----------------------------------------------------------------------------
(* routes/orders: POST / *)

\* product.price * item.quantity, in money units
itemTotal(price, quantity) == (price * quantity) \div QtyUnit

\* the for loop of lines 40-60: stops at the first item that does not
\* resolve or whose quantity is falsy or not positive
RECURSIVE validateItems(_, _, _, _, _)
validateItems(catalog, items, i, validatedItems, calculatedTotal) ==
  IF i > Len(items)
  THEN [code |-> 201, msg |-> "", id |-> 0,
        items |-> validatedItems, calculated |-> calculatedTotal]
  ELSE LET item == items[i]
           k == findIndex(catalog, item.id)
       IN IF k = 0
          THEN [code |-> 400, msg |-> "Product not found", id |-> item.id,
                items |-> << >>, calculated |-> 0]
          ELSE IF ~item.hasQty \/ item.quantity = 0 \/ item.quantity <= 0
          THEN [code |-> 400, msg |-> "Invalid quantity", id |-> catalog[k].id,
                items |-> << >>, calculated |-> 0]
          ELSE validateItems(catalog, items, i + 1,
                 Append(validatedItems,
                        [id |-> catalog[k].id, name |-> catalog[k].name,
                         price |-> catalog[k].price, quantity |-> item.quantity,
                         subtotal |-> itemTotal(catalog[k].price, item.quantity)]),
                 calculatedTotal + itemTotal(catalog[k].price, item.quantity))

Abs(x) == IF x < 0 THEN -x ELSE x

\* faulty variant: the tolerance itself counts as a mismatch
totalMismatchStrict(calculatedTotal, total) == Abs(calculatedTotal - total) >= Tolerance

\* Math.abs(calculatedTotal - total) > 0.01
totalMismatch(calculatedTotal, total) == Abs(calculatedTotal - total) > Tolerance

\* lines 22-69: everything the handler decides before it touches the orders
validateOrder(req, catalog) ==
  IF ~req.billing
  THEN [code |-> 400, msg |-> "All billing information fields are required",
        id |-> 0, items |-> << >>, calculated |-> 0]
  ELSE IF Len(req.items) = 0
  THEN [code |-> 400, msg |-> "Order must contain at least one item",
        id |-> 0, items |-> << >>, calculated |-> 0]
  ELSE IF req.total = 0 \/ req.total <= 0
  THEN [code |-> 400, msg |-> "Invalid order total",
        id |-> 0, items |-> << >>, calculated |-> 0]
  ELSE LET v == validateItems(catalog, req.items, 1, << >>, 0)
       IN IF v.code # 201 THEN v
          ELSE IF totalMismatch(v.calculated, req.total)
          THEN [v EXCEPT !.code = 400, !.msg = "Order total mismatch"]
          ELSE v

\* faulty variant: the total the client declared is stored
newOrderDeclaredTotal(req, v, t) ==
  [id |-> t,
   userId |-> IF req.userId = 0 THEN NoUser ELSE req.userId,
   items |-> v.items,
   total |-> req.total,
   status |-> "completed",
   createdAt |-> t,
   updatedAt |-> t]

\* lines 73-92
newOrder(req, v, t) ==
  [id |-> t,
   userId |-> IF req.userId = 0 THEN NoUser ELSE req.userId,
   items |-> v.items,
   total |-> v.calculated,
   status |-> "completed",
   createdAt |-> t,
   updatedAt |-> t]

\* faulty variant: the order is pushed and written before the total is compared
reachesWriteBeforeTotalCheck(v) == v.items # << >>

\* lines 23-69 return before line 71 is reached unless every check passed
reachesWrite(v) == v.code = 201

\* orders.push(newOrder)
ordersToWrite(loaded, order) == Append(loaded, order)

\* the collections whose readData call logged an error and returned []
readError(filename, fail) == IF fail THEN {filename} ELSE {}

\* the response of POST /
createReply(v, req, order) ==
  IF v.code = 201
  THEN ReplyRecord("createOrder", 201, "Order created successfully", order)
  ELSE IF v.msg = "Order total mismatch"
  THEN [Reply("createOrder", 400, v.msg) EXCEPT
          !.calculated = v.calculated, !.provided = req.total]
  ELSE [Reply("createOrder", 400, v.msg) EXCEPT !.ref = v.id]

\* the response together with the request body it answers
From(r, req) == [r EXCEPT !.req = req]

CreateOrder(req, rfProducts, rfOrders, wf) ==
  /\ Len(orders) < MaxOrders
  /\ \E v \in {validateOrder(req, readData(products, rfProducts))} :
     \E order \in {newOrder(req, v, now)} :
        /\ resp' = From(createReply(v, req, order), req)
        /\ IF reachesWrite(v)
           THEN /\ orders' = writeData(orders,
                               ordersToWrite(readData(orders, rfOrders), order), wf)
                /\ lastRead' = readError("products", rfProducts) \cup readError("orders", rfOrders)
                /\ lastWrite' = writeResult(wf)
           ELSE /\ orders' = orders
                /\ lastRead' = readError("products", rfProducts)
                /\ lastWrite' = "none"
  /\ UNCHANGED <<products, now, users, registering>>

-----------------------------------------------------------------------------
(* routes/orders: the reads *)

\* faulty variant: the first page starts one page in
paginateFromNextPage(op, recs, page, pageSize) ==
  LET startIndex == page * pageSize
      endIndex == startIndex + pageSize
  IN ReplyPage(op, slice(recs, startIndex, endIndex), Len(recs), page, pageSize)

\* lines 133-145 and 165-177 (products.js lines 29-41)
paginate(op, recs, page, pageSize) ==
  LET startIndex == (page - 1) * pageSize
      endIndex == startIndex + pageSize
  IN ReplyPage(op, slice(recs, startIndex, endIndex), Len(recs), page, pageSize)

\* const { page = 1, limit = 10 } = req.query; parseInt(limit)
orderPageSize(hasLimit, limit) == IF hasLimit THEN limit ELSE DefaultLimit

\* the response with the path parameter, the status sent and the caller
About(r, caller, id, status) ==
  [r EXCEPT !.caller = caller, !.ref = id, !.param = status]

\* the response with the caller and the filter value of the query
To(r, caller, filter) == [r EXCEPT !.caller = caller, !.param = filter]

\* GET /
GetAllOrders(caller, status, page, hasLimit, limit, rf) ==
  /\ IF caller.role # "admin"
     THEN /\ resp' = To(Reply("listOrders", 403, "Access denied. Admin only."),
                        caller, status)
          /\ lastRead' = {}
     ELSE LET loaded == readData(orders, rf)
              byStatus(o) == o.status = status
              filtered == IF status # "" THEN SelectSeq(loaded, byStatus) ELSE loaded
          IN /\ resp' = To(paginate("listOrders", sortNewestFirst(filtered),
                                    page, orderPageSize(hasLimit, limit)), caller, status)
             /\ lastRead' = readError("orders", rf)
  /\ lastWrite' = "none"
  /\ UNCHANGED <<products, orders, now, users, registering>>

\* faulty variant: orders placed without a user are everybody's
ownOrAnonymous(order, caller) == order.userId = caller.userId \/ order.userId = NoUser

\* order.userId === req.user.userId
ownOrder(order, caller) == order.userId = caller.userId

\* GET /my-orders
GetMyOrders(caller, page, hasLimit, limit, rf) ==
  /\ LET loaded == readData(orders, rf)
         own(o) == ownOrder(o, caller)
         userOrders == SelectSeq(loaded, own)
     IN resp' = To(paginate("myOrders", sortNewestFirst(userOrders),
                            page, orderPageSize(hasLimit, limit)), caller, "")
  /\ lastRead' = readError("orders", rf)
  /\ lastWrite' = "none"
  /\ UNCHANGED <<products, orders, now, users, registering>>

\* GET /:id
GetOrder(caller, orderId, rf) ==
  /\ LET loaded == readData(orders, rf)
         k == findIndex(loaded, orderId)
     IN resp' = About(IF k = 0
                      THEN Reply("getOrder", 404, "Order not found")
                      ELSE IF caller.role # "admin" /\ ~ownOrder(loaded[k], caller)
                      THEN Reply("getOrder", 403, "Access denied")
                      ELSE ReplyRecord("getOrder", 200, "", loaded[k]),
                      caller, orderId, "")
  /\ lastRead' = readError("orders", rf)
  /\ lastWrite' = "none"
  /\ UNCHANGED <<products, orders, now, users, registering>>

-----------------------------------------------------------------------------
(* routes/orders: PUT /:id/status and DELETE /:id *)

\* faulty variant: the whole record is replaced by the two fields that were sent
withStatusOnly(loaded, k, status, t) ==
  [loaded EXCEPT ![k] = [@ EXCEPT !.status = status, !.updatedAt = t,
                                  !.items = << >>, !.total = 0]]

\* lines 235-236
withStatus(loaded, k, status, t) ==
  [loaded EXCEPT ![k].status = status, ![k].updatedAt = t]

\* faulty variant: any non-empty status is taken
anyStatus(status) == status # ""

\* status && validStatuses.includes(status)
acceptedStatus(status) == status # "" /\ status \in validStatuses

UpdateOrderStatus(caller, orderId, status, rf, wf) ==
  /\ IF caller.role # "admin"
     THEN /\ resp' = About(Reply("updateStatus", 403, "Access denied. Admin only."),
                           caller, orderId, status)
          /\ UNCHANGED <<orders>>
          /\ lastRead' = {}
          /\ lastWrite' = "none"
     ELSE IF ~acceptedStatus(status)
     THEN /\ resp' = About(Reply("updateStatus", 400, "Invalid status"),
                           caller, orderId, status)
          /\ UNCHANGED <<orders>>
          /\ lastRead' = {}
          /\ lastWrite' = "none"
     ELSE LET loaded == readData(orders, rf)
              k == findIndex(loaded, orderId)
          IN IF k = 0
             THEN /\ resp' = About(Reply("updateStatus", 404, "Order not found"),
                                   caller, orderId, status)
                  /\ UNCHANGED <<orders>>
                  /\ lastRead' = readError("orders", rf)
                  /\ lastWrite' = "none"
             ELSE LET data == withStatus(loaded, k, status, now)
                  IN /\ orders' = writeData(orders, data, wf)
                     /\ resp' = About(ReplyRecord("updateStatus", 200,
                                         "Order status updated successfully", data[k]),
                                      caller, orderId, status)
                     /\ lastRead' = readError("orders", rf)
                     /\ lastWrite' = writeResult(wf)
  /\ UNCHANGED <<products, now, users, registering>>

DeleteOrder(caller, orderId, rf, wf) ==
  /\ IF caller.role # "admin"
     THEN /\ resp' = About(Reply("deleteOrder", 403, "Access denied. Admin only."),
                           caller, orderId, "")
          /\ UNCHANGED <<orders>>
          /\ lastRead' = {}
          /\ lastWrite' = "none"
     ELSE LET loaded == readData(orders, rf)
              k == findIndex(loaded, orderId)
          IN IF k = 0
             THEN /\ resp' = About(Reply("deleteOrder", 404, "Order not found"),
                                   caller, orderId, "")
                  /\ UNCHANGED <<orders>>
                  /\ lastRead' = readError("orders", rf)
                  /\ lastWrite' = "none"
             ELSE /\ orders' = writeData(orders, splice(loaded, k), wf)
                  /\ resp' = About(ReplyRecord("deleteOrder", 200,
                                    "Order deleted successfully", loaded[k]),
                                   caller, orderId, "")
                  /\ lastRead' = readError("orders", rf)
                  /\ lastWrite' = writeResult(wf)
  /\ UNCHANGED <<products, now, users, registering>>

-----------------------------------------------------------------------------
(* routes/products.js *)

\* String.prototype.toLowerCase on the strings the model sends
Lower(str) ==
  CASE str = "A" -> "a"
    [] str = "B" -> "b"
    [] str = "UI" -> "ui"
    [] OTHER -> str

\* products.find(p => p.name.toLowerCase() === name.toLowerCase())
nameTaken(catalog, name) ==
  \E i \in 1..Len(catalog) : Lower(catalog[i].name) = Lower(name)

\* products.find(p => p.name.toLowerCase() === name.toLowerCase() && p.id !== productId)
nameTakenByOther(catalog, name, productId) ==
  \E i \in 1..Len(catalog) :
     Lower(catalog[i].name) = Lower(name) /\ catalog[i].id # productId

\* POST /
CreateProduct(caller, name, price, category, rf, wf) ==
  /\ Len(products) < MaxProducts
  /\ IF caller.role # "admin"
     THEN /\ resp' = About(Reply("createProduct", 403, "Access denied. Admin only."),
                           caller, 0, name)
          /\ UNCHANGED products
          /\ lastRead' = {}
          /\ lastWrite' = "none"
     ELSE IF name = "" \/ price = 0 \/ category = ""
     THEN /\ resp' = About(Reply("createProduct", 400,
                                 "Name, price, category, and description are required"),
                           caller, 0, name)
          /\ UNCHANGED products
          /\ lastRead' = {}
          /\ lastWrite' = "none"
     ELSE IF price <= 0
     THEN /\ resp' = About(Reply("createProduct", 400, "Price must be greater than 0"),
                           caller, 0, name)
          /\ UNCHANGED products
          /\ lastRead' = {}
          /\ lastWrite' = "none"
     ELSE LET loaded == readData(products, rf)
              newProduct == [id |-> now, name |-> name, price |-> price,
                             category |-> category]
          IN IF nameTaken(loaded, name)
             THEN /\ resp' = About(Reply("createProduct", 400,
                                         "Product with this name already exists"),
                                   caller, 0, name)
                  /\ UNCHANGED products
                  /\ lastRead' = readError("products", rf)
                  /\ lastWrite' = "none"
             ELSE /\ products' = writeData(products, Append(loaded, newProduct), wf)
                  /\ resp' = About(ReplyRecord("createProduct", 201,
                                     "Product created successfully", newProduct),
                                   caller, 0, name)
                  /\ lastRead' = readError("products", rf)
                  /\ lastWrite' = writeResult(wf)
  /\ UNCHANGED <<orders, now, users, registering>>

\* lines 196-198: a falsy field of the body leaves the stored one alone
withFields(loaded, k, name, price, category) ==
  [loaded EXCEPT
     ![k].name = IF name # "" THEN name ELSE @,
     ![k].price = IF price # 0 THEN price ELSE @,
     ![k].category = IF category # "" THEN category ELSE @]

\* PUT /:id
UpdateProduct(caller, productId, name, price, category, rf, wf) ==
  /\ IF caller.role # "admin"
     THEN /\ resp' = About(Reply("updateProduct", 403, "Access denied. Admin only."),
                           caller, productId, name)
          /\ UNCHANGED products
          /\ lastRead' = {}
          /\ lastWrite' = "none"
     ELSE LET loaded == readData(products, rf)
              k == findIndex(loaded, productId)
          IN IF k = 0
             THEN /\ resp' = About(Reply("updateProduct", 404, "Product not found"),
                                   caller, productId, name)
                  /\ UNCHANGED products
                  /\ lastRead' = readError("products", rf)
                  /\ lastWrite' = "none"
             ELSE IF price # 0 /\ price <= 0
             THEN /\ resp' = About(Reply("updateProduct", 400,
                                         "Price must be greater than 0"),
                                   caller, productId, name)
                  /\ UNCHANGED products
                  /\ lastRead' = readError("products", rf)
                  /\ lastWrite' = "none"
             ELSE IF /\ name # ""
                     /\ name # loaded[k].name
                     /\ nameTakenByOther(loaded, name, productId)
             THEN /\ resp' = About(Reply("updateProduct", 400,
                                         "Product with this name already exists"),
                                   caller, productId, name)
                  /\ UNCHANGED products
                  /\ lastRead' = readError("products", rf)
                  /\ lastWrite' = "none"
             ELSE LET data == withFields(loaded, k, name, price, category)
                  IN /\ products' = writeData(products, data, wf)
                     /\ resp' = About(ReplyRecord("updateProduct", 200,
                                        "Product updated successfully", data[k]),
                                      caller, productId, name)
                     /\ lastRead' = readError("products", rf)
                     /\ lastWrite' = writeResult(wf)
  /\ UNCHANGED <<orders, now, users, registering>>

\* DELETE /:id
DeleteProduct(caller, productId, rf, wf) ==
  /\ IF caller.role # "admin"
     THEN /\ resp' = About(Reply("deleteProduct", 403, "Access denied. Admin only."),
                           caller, productId, "")
          /\ UNCHANGED products
          /\ lastRead' = {}
          /\ lastWrite' = "none"
     ELSE LET loaded == readData(products, rf)
              k == findIndex(loaded, productId)
          IN IF k = 0
             THEN /\ resp' = About(Reply("deleteProduct", 404, "Product not found"),
                                   caller, productId, "")
                  /\ UNCHANGED products
                  /\ lastRead' = readError("products", rf)
                  /\ lastWrite' = "none"
             ELSE /\ products' = writeData(products, splice(loaded, k), wf)
                  /\ resp' = About(ReplyRecord("deleteProduct", 200,
                                     "Product deleted successfully", loaded[k]),
                                   caller, productId, "")
                  /\ lastRead' = readError("products", rf)
                  /\ lastWrite' = writeResult(wf)
  /\ UNCHANGED <<orders, now, users, registering>>

\* limit ? parseInt(limit) : products.length
productPageSize(hasLimit, limit, n) == IF hasLimit THEN limit ELSE n

Anyone == [role |-> "none", userId |-> 0]

\* GET / (no search term is sent)
GetProducts(category, page, hasLimit, limit, rf) ==
  /\ LET loaded == readData(products, rf)
         inCategory(p) == Lower(p.category) = Lower(category)
         filtered == IF category # "" /\ category # "All"
                     THEN SelectSeq(loaded, inCategory) ELSE loaded
     IN resp' = To(paginate("listProducts", filtered, page,
                            productPageSize(hasLimit, limit, Len(filtered))),
                   Anyone, category)
  /\ lastRead' = readError("products", rf)
  /\ lastWrite' = "none"
  /\ UNCHANGED <<products, orders, now, users, registering>>

-----------------------------------------------------------------------------
(* routes/auth.js *)
(* Addresses are the strings "a", "A" and "b": "a" and "A" differ in case  *)
(* only.  A stored user is [id, name, email, role]; the password hash and  *)
(* the dates are left out.                                                 *)

\* users.find(user => user.email === email)
emailRegistered(loaded, email) ==
  \E i \in 1..Len(loaded) : loaded[i].email = email

\* lines 36-43
newUser(name, email, t) ==
  [id |-> t, name |-> name, email |-> Lower(email), role |-> "customer"]

\* POST /register up to the first await (lines 12-32): the field checks, the
\* read of the users file and the search for the address; a request that
\* passes them waits on bcrypt with the users it has read
RegisterBegin(name, email, passwordLength, rf) ==
  /\ Len(registering) < MaxRegistering
  /\ IF name = "" \/ email = "" \/ passwordLength = 0
     THEN /\ resp' = About(Reply("register", 400, "All fields are required"),
                           Anyone, 0, email)
          /\ lastRead' = {}
          /\ UNCHANGED registering
     ELSE IF passwordLength < MinPasswordLength
     THEN /\ resp' = About(Reply("register", 400,
                                 "Password must be at least 6 characters"),
                           Anyone, 0, email)
          /\ lastRead' = {}
          /\ UNCHANGED registering
     ELSE LET loaded == readData(users, rf)
          IN IF emailRegistered(loaded, email)
             THEN /\ resp' = About(Reply("register", 400,
                                         "User already exists with this email"),
                                   Anyone, 0, email)
                  /\ lastRead' = readError("users", rf)
                  /\ UNCHANGED registering
             ELSE /\ registering' =
                       Append(registering,
                              [name |-> name, email |-> email, users |-> loaded])
                  /\ lastRead' = readError("users", rf)
                  /\ UNCHANGED resp
  /\ lastWrite' = "none"
  /\ UNCHANGED <<products, orders, now, users>>

\* POST /register after the awaits (lines 35-63): the user is made with
\* id Date.now(), pushed onto the users read before the awaits, and that
\* array is written
RegisterFinish(i, wf) ==
  /\ i \in 1..Len(registering)
  /\ Len(registering[i].users) < MaxUsers
  /\ LET r == registering[i]
         user == newUser(r.name, r.email, now)
     IN /\ users' = writeData(users, Append(r.users, user), wf)
        /\ resp' = About(ReplyRecord("register", 201,
                                     "User registered successfully", user),
                         Anyone, user.id, r.email)
  /\ registering' = splice(registering, i)
  /\ lastRead' = {}
  /\ lastWrite' = writeResult(wf)
  /\ UNCHANGED <<products, orders, now>>

\* users.find(u => u.email === email.toLowerCase() && u.id !== req.user.userId)
emailTakenByOther(loaded, email, userId) ==
  \E i \in 1..Len(loaded) : loaded[i].email = Lower(email) /\ loaded[i].id # userId

\* lines 157-158
withProfile(user, name, email) ==
  [user EXCEPT !.name = IF name # "" THEN name ELSE @,
               !.email = IF email # "" THEN Lower(email) ELSE @]

\* PUT /profile: no await between the read and the write
UpdateProfile(caller, name, email, rf, wf) ==
  /\ LET loaded == readData(users, rf)
         k == findIndex(loaded, caller.userId)
     IN IF k = 0
        THEN /\ resp' = About(Reply("updateProfile", 404, "User not found"),
                              caller, caller.userId, email)
             /\ UNCHANGED users
             /\ lastWrite' = "none"
        ELSE IF /\ email # "" /\ email # loaded[k].email
                /\ emailTakenByOther(loaded, email, caller.userId)
        THEN /\ resp' = About(Reply("updateProfile", 400, "Email already taken"),
                              caller, caller.userId, email)
             /\ UNCHANGED users
             /\ lastWrite' = "none"
        ELSE LET user == withProfile(loaded[k], name, email)
             IN /\ users' = writeData(users, [loaded EXCEPT ![k] = user], wf)
                /\ resp' = About(ReplyRecord("updateProfile", 200,
                                             "Profile updated successfully", user),
                                 caller, caller.userId, email)
                /\ lastWrite' = writeResult(wf)
  /\ lastRead' = readError("users", rf)
  /\ UNCHANGED <<products, orders, now, registering>>

-----------------------------------------------------------------------------
(* The clock *)

Tick ==
  /\ now < MaxClock
  /\ now' = now + 1
  /\ UNCHANGED <<products, orders, resp, lastRead, lastWrite, users, registering>>

-----------------------------------------------------------------------------
(* Requests the model sends *)

Admin == [role |-> "admin", userId |-> 1]
Customer == [role |-> "customer", userId |-> 2]
Customers == {Customer, [role |-> "customer", userId |-> 3]}
Callers == {Admin} \cup Customers

\* a catalog two earlier product creations have left
SeedCatalog ==
  << [id |-> 1, name |-> "a", price |-> 2, category |-> "ui"],
     [id |-> 2, name |-> "b", price |-> 4, category |-> "kit"] >>

FirstNow == Len(SeedCatalog) + 1
\* the ids Date.now() can have given to an order or a product
OrderIds == FirstNow..MaxClock
ProductIds == FirstNow..MaxClock

\* storage faults of one order creation: at most one of the three calls throws
NoFault == [rfP |-> FALSE, rfO |-> FALSE, wf |-> FALSE]
Faults ==
  { NoFault,
    [rfP |-> TRUE, rfO |-> FALSE, wf |-> FALSE],
    [rfP |-> FALSE, rfO |-> TRUE, wf |-> FALSE],
    [rfP |-> FALSE, rfO |-> FALSE, wf |-> TRUE] }

\* storage faults of a request that reads and writes one file
StoreFaults == {[rf |-> FALSE, wf |-> FALSE], [rf |-> TRUE, wf |-> FALSE],
                [rf |-> FALSE, wf |-> TRUE]}

RECURSIVE SeqsUpTo(_, _)
SeqsUpTo(S, n) ==
  IF n = 0 THEN {<< >>}
  ELSE LET shorter == SeqsUpTo(S, n - 1)
       IN shorter \cup {Append(q, x) : q \in {r \in shorter : Len(r) = n - 1}, x \in S}

\* one piece of a product
Piece(id) == [id |-> id, hasQty |-> TRUE, quantity |-> QtyUnit]
\* half a piece of product 1, no piece of product 2, a quantity left out,
\* a piece of a product the catalog never held
HalfPiece == [id |-> 1, hasQty |-> TRUE, quantity |-> 1]
NoPiece == [id |-> 2, hasQty |-> TRUE, quantity |-> 0]
Unknown == Piece(0)

Request(items, total, userId) ==
  [billing |-> TRUE, items |-> items, total |-> total, userId |-> userId]

Init ==
  /\ products = SeedCatalog
  /\ orders = << >>
  /\ now = FirstNow
  /\ resp = Reply("none", 0, "")
  /\ lastRead = {}
  /\ lastWrite = "none"
  /\ users = << >>
  /\ registering = << >>

-----------------------------------------------------------------------------
(* What a request asks for, read off the request and the catalog *)

Resolves(item, catalog) == \E k \in 1..Len(catalog) : catalog[k].id = item.id

\* the catalog price of an item: that of the first product with its id
CatalogPrice(item, catalog) ==
  catalog[CHOOSE k \in 1..Len(catalog) :
            /\ catalog[k].id = item.id
            /\ \A j \in 1..(k - 1) : catalog[j].id # item.id].price

ValidQuantity(item) == item.hasQty /\ item.quantity > 0

PassesChecks(req, catalog) ==
  /\ req.billing
  /\ Len(req.items) > 0
  /\ req.total > 0
  /\ \A i \in 1..Len(req.items) :
       Resolves(req.items[i], catalog) /\ ValidQuantity(req.items[i])

RECURSIVE SumUpTo(_, _)
SumUpTo(f, n) == IF n = 0 THEN 0 ELSE f[n] + SumUpTo(f, n - 1)

\* sum of catalogPrice x quantity over the items, in money units
ComputedTotal(req, catalog) ==
  SumUpTo([i \in 1..Len(req.items) |->
             (CatalogPrice(req.items[i], catalog) * req.items[i].quantity) \div QtyUnit],
          Len(req.items))

IsCreate == resp.op = "createOrder"
IsMismatch == IsCreate /\ resp.code = 400 /\ resp.msg = "Order total mismatch"

-----------------------------------------------------------------------------
(* Pricing: every request for a first order, while the admin reprices *)
(* product 1                                                          *)

ItemInputs == {Piece(1), Piece(2), HalfPiece, NoPiece, Unknown}
Totals == 0..(3 * MaxItems)

PricingRequests ==
  {Request(items, total, 2) :
     items \in SeqsUpTo(ItemInputs, MaxItems), total \in Totals}

\* every request with the storage working, and the requests for one item
\* with a total of 0.01 with each storage fault
PricingInputs ==
  [req : PricingRequests, f : {NoFault}]
    \cup [req : {r \in PricingRequests : r.total = 2 /\ Len(r.items) = 1}, f : Faults]

NextPricing ==
  \/ \E in \in PricingInputs :
        orders = << >> /\ CreateOrder(in.req, in.f.rfP, in.f.rfO, in.f.wf)
  \/ \E p \in {2, 4} : UpdateProduct(Admin, 1, "", p, "", FALSE, FALSE)

SpecPricing == Init /\ [][NextPricing]_vars

\* C1: a create request that passes the field checks and whose items all
\* resolve in the catalog the handler read, with valid quantities, is
\* answered with the total-mismatch error carrying the computed and the
\* provided total when they differ by more than 0.01, and with 201 when they
\* differ by at most 0.01.
C1_TotalCheck ==
  (IsCreate /\ "products" \notin lastRead /\ PassesChecks(resp.req, products)) =>
    LET computed == ComputedTotal(resp.req, products)
    IN IF Abs(resp.req.total - computed) > Tolerance
       THEN /\ IsMismatch
            /\ resp.calculated = computed
            /\ resp.provided = resp.req.total
       ELSE resp.code = 201

\* a two-item request whose declared total is exactly 0.01 above the
\* computed one was accepted, after product 1 was repriced
C1_Witness ==
  /\ IsCreate /\ resp.code = 201
  /\ PassesChecks(resp.req, products)
  /\ Len(resp.req.items) = 2
  /\ products[1].price = 4
  /\ resp.req.items[1].id = 1
  /\ resp.req.total - ComputedTotal(resp.req, products) = Tolerance

-----------------------------------------------------------------------------
(* Order creation into a growing store: accepted and rejected requests *)

\* pieces of products 1 and 2 in turn
GoodItems(len) == [i \in 1..len |-> Piece(IF i % 2 = 1 THEN 1 ELSE 2)]
GoodTotal(len) == ComputedTotal(Request(GoodItems(len), 1, 2), SeedCatalog)

\* accepted requests, requests with a wrong total, and requests with an
\* unknown product or an invalid quantity at each position; then the
\* requests that fail a field check
OrderRequests ==
  {Request(GoodItems(len), GoodTotal(len) + d, 2) :
     len \in 1..MaxItems, d \in {0, Tolerance + 1}}
  \cup {Request([GoodItems(len) EXCEPT ![pos] = bad], GoodTotal(len), 2) :
          len \in 1..MaxItems, pos \in 1..MaxItems, bad \in {Unknown, NoPiece}}
  \cup {Request(<< >>, 2, 2), Request(GoodItems(1), 0, 2), Request(GoodItems(1), -1, 2),
        [Request(GoodItems(1), 2, 2) EXCEPT !.billing = FALSE]}

Next ==
  \/ Tick
  \/ \E req \in OrderRequests, f \in Faults : CreateOrder(req, f.rfP, f.rfO, f.wf)

Spec == Init /\ [][Next]_vars

\* C2: a rejected create request leaves the stored orders as they were.
C2_RejectedCreateStoresNothing ==
  [][(resp'.op = "createOrder" /\ resp'.code = 400) => orders' = orders]_vars

\* a request whose last item is unknown was rejected while an order is stored
C2_Witness ==
  /\ IsCreate /\ resp.code = 400 /\ resp.msg = "Product not found"
  /\ Len(resp.req.items) = MaxItems
  /\ \A i \in 1..(MaxItems - 1) : Resolves(resp.req.items[i], products)
  /\ Len(orders) >= 1

\* C5: all stored orders have pairwise distinct ids.
C5_DistinctOrderIds ==
  \A i, j \in 1..Len(orders) : i # j => orders[i].id # orders[j].id

\* C14: a create answered 201 only appends: every order stored before it is
\* stored, unmodified and at its place, after it.
C14_CreateOnlyAppends ==
  [][(resp'.op = "createOrder" /\ resp'.code = 201) =>
       /\ Len(orders') >= Len(orders)
       /\ \A k \in 1..Len(orders) : orders'[k] = orders[k]]_vars

-----------------------------------------------------------------------------
(* The life of stored orders: create, updateStatus, delete *)

\* one-item and longest requests, declared exactly or 0.01 too high, and a
\* request naming an unknown product
LifecycleRequests ==
  {Request(GoodItems(len), GoodTotal(len) + d, 2) :
     len \in {1, MaxItems}, d \in {0, Tolerance}}
  \cup {Request(<<Piece(1), Unknown>>, GoodTotal(1), 2)}

NextLifecycle ==
  \/ Tick
  \/ \E req \in LifecycleRequests, wf \in BOOLEAN : CreateOrder(req, FALSE, FALSE, wf)
  \/ \E id \in OrderIds, f \in StoreFaults :
        UpdateOrderStatus(Admin, id, "cancelled", f.rf, f.wf)
  \/ \E id \in OrderIds, f \in StoreFaults : DeleteOrder(Admin, id, f.rf, f.wf)
  \/ DeleteProduct(Admin, 2, FALSE, FALSE)

SpecLifecycle == Init /\ [][NextLifecycle]_vars

\* C3: no mutating order operation reports success (200/201) when its
\* storage write failed.
C3_WriteFailureSurfaced ==
  (resp.op \in {"createOrder", "updateStatus", "deleteOrder"} /\ lastWrite = "failed")
    => resp.code \notin {200, 201}

WellFormedOrder(o) ==
  /\ Len(o.items) > 0
  /\ \A i \in 1..Len(o.items) :
       o.items[i].subtotal * QtyUnit = o.items[i].price * o.items[i].quantity
  /\ o.total = SumUpTo([i \in 1..Len(o.items) |-> o.items[i].subtotal], Len(o.items))

\* C6: every stored order has a non-empty items list, each subtotal equal to
\* the captured price x quantity, and a total equal to the sum of the
\* subtotals; and every order a create stores names only product ids the
\* catalog holds at that moment.
C6_StoredOrdersWellFormed ==
  /\ [](\A k \in 1..Len(orders) : WellFormedOrder(orders[k]))
  /\ [][(resp'.op = "createOrder" /\ orders' # orders) =>
          \A i \in 1..Len(orders'[Len(orders')].items) :
             Resolves(orders'[Len(orders')].items[i], products)]_vars

\* an order of several items whose declared total was not the computed one
\* has just been stored behind an order whose status was changed
C6_Witness ==
  /\ Len(orders) = 2
  /\ orders[1].status = "cancelled"
  /\ Len(orders[2].items) = MaxItems
  /\ IsCreate /\ resp.code = 201 /\ resp.req.total # orders[2].total
  /\ orders[2] = resp.recs[1]

-----------------------------------------------------------------------------
(* Status updates by admins and customers *)

StatusInputs == {"cancelled", "pending", "shipped", ""}

\* what an admin sends, and what a customer sends
StatusUpdates ==
  [caller : {Admin}, id : OrderIds, status : StatusInputs, f : StoreFaults]
    \cup [caller : {Customer}, id : OrderIds, status : {"cancelled", "shipped"},
          f : {[rf |-> FALSE, wf |-> FALSE]}]

NextStatus ==
  \/ Tick
  \/ CreateOrder(Request(GoodItems(1), GoodTotal(1), 2), FALSE, FALSE, FALSE)
  \/ \E u \in StatusUpdates : UpdateOrderStatus(u.caller, u.id, u.status, u.f.rf, u.f.wf)

SpecStatus == Init /\ [][NextStatus]_vars

OrderExists(id) == \E k \in 1..Len(orders) : orders[k].id = id

\* C8: updateStatus changes the store only for an admin, a status of the
\* enum and an existing order; a non-admin is answered 403, an admin sending
\* another status 400, an admin asking for an absent order 404, and the
\* store stays as it was; every stored status is a member of the enum.
C8_UpdateStatusGuarded ==
  /\ [](\A k \in 1..Len(orders) : orders[k].status \in validStatuses)
  /\ [][resp'.op = "updateStatus" =>
          LET admin == resp'.caller.role = "admin"
              valid == resp'.param \in validStatuses
              exists == OrderExists(resp'.ref)
          IN /\ (orders' # orders => admin /\ valid /\ exists)
             /\ (~admin => resp'.code = 403 /\ orders' = orders)
             /\ (admin /\ ~valid => resp'.code = 400 /\ orders' = orders)
             /\ (admin /\ valid /\ ~exists => resp'.code = 404 /\ orders' = orders)]_vars

\* an admin has just changed the status of the second of two orders, and of
\* that order only
C8_Witness ==
  /\ resp.op = "updateStatus" /\ resp.code = 200
  /\ resp.caller = Admin
  /\ Len(orders) = 2
  /\ orders[1].status = "completed"
  /\ orders[2].status = "cancelled"
  /\ orders[2].id = resp.ref /\ orders[1].id # resp.ref

-----------------------------------------------------------------------------
(* Stored orders while the catalog changes *)

NextFrozen ==
  \/ Tick
  \/ CreateOrder(Request(GoodItems(1), GoodTotal(1), 2), FALSE, FALSE, FALSE)
  \/ \E id \in OrderIds : UpdateOrderStatus(Admin, id, "cancelled", FALSE, FALSE)
  \/ \E n \in {"", "A"}, p \in {0, 4}, f \in StoreFaults :
        UpdateProduct(Admin, 1, n, p, "", f.rf, f.wf)
  \/ \E id \in {1, 2} : DeleteProduct(Admin, id, FALSE, FALSE)

SpecFrozen == Init /\ [][NextFrozen]_vars

ProductOps == {"createProduct", "updateProduct", "deleteProduct", "listProducts"}

\* C9: product operations leave the stored orders unchanged, and updateStatus
\* leaves the items and the total of every order unchanged.
C9_LineItemsFrozen ==
  [][/\ (resp'.op \in ProductOps => orders' = orders)
     /\ (resp'.op = "updateStatus" =>
           /\ Len(orders') = Len(orders)
           /\ \A k \in 1..Len(orders) :
                /\ orders'[k].items = orders[k].items
                /\ orders'[k].total = orders[k].total)]_vars

\* product 1 was renamed and repriced after an order captured it, and that
\* order's status was changed since
C9_Witness ==
  /\ Len(orders) >= 1
  /\ orders[1].status = "cancelled"
  /\ orders[1].items[1].id = 1
  /\ Len(products) = 2
  /\ products[1].id = 1
  /\ products[1].price # orders[1].items[1].price
  /\ products[1].name # orders[1].items[1].name

-----------------------------------------------------------------------------
(* Who is sent which order *)

\* orders of customer 2, of customer 3 and of nobody
ReadRequests == {Request(GoodItems(1), GoodTotal(1), u) : u \in {NoUser, 2, 3}}

\* page and limit of a listing, and whether the read of the file fails
ReadInputs ==
  [page : 0..2, hasLimit : {TRUE}, limit : 0..2, rf : {FALSE}]
    \cup [page : 0..2, hasLimit : {FALSE}, limit : {0}, rf : {FALSE}]
    \cup [page : {1}, hasLimit : {FALSE}, limit : {0}, rf : {TRUE}]

NextRead ==
  \/ Tick
  \/ \E req \in ReadRequests : CreateOrder(req, FALSE, FALSE, FALSE)
  \/ \E c \in Callers : GetAllOrders(c, "", 1, FALSE, 0, FALSE)
  \/ \E c \in Callers, q \in ReadInputs :
        GetMyOrders(c, q.page, q.hasLimit, q.limit, q.rf)
  \/ \E c \in Callers, id \in OrderIds, rf \in BOOLEAN : GetOrder(c, id, rf)

SpecRead == Init /\ [][NextRead]_vars

\* C4: a caller who is not an admin is never sent an order of another
\* user: what the listings and getById return to them carries their own id,
\* the all-orders listing answers 403, and getById answers 403 for an order
\* that was read and belongs to someone else.
C4_OwnOrdersOnly ==
  (resp.op \in {"listOrders", "myOrders", "getOrder"} /\ resp.caller.role # "admin") =>
    /\ \A i \in 1..Len(resp.recs) : resp.recs[i].userId = resp.caller.userId
    /\ resp.op = "listOrders" => resp.code = 403
    /\ (/\ resp.op = "getOrder"
        /\ lastRead = {}
        /\ \E k \in 1..Len(orders) :
             /\ orders[k].id = resp.ref
             /\ \A j \in 1..(k - 1) : orders[j].id # resp.ref
             /\ orders[k].userId # resp.caller.userId) => resp.code = 403

\* a customer listed their single order while another user's order and an
\* order without a user are stored too (three orders need MaxOrders >= 3,
\* so two stored orders are asked for)
C4_Witness ==
  /\ resp.op = "myOrders"
  /\ resp.caller.role = "customer"
  /\ Len(resp.recs) = 1
  /\ Len(orders) = 2
  /\ \E k \in 1..2 : orders[k].userId \notin {resp.caller.userId}

-----------------------------------------------------------------------------
(* Pages of the listings *)

Pages == 0..3
Limits == 0..2

\* page and limit of a list query, and whether the read of the file fails:
\* every page with every limit or none, and the first page on a failed read
PageInputs ==
  [page : Pages, hasLimit : {TRUE}, limit : Limits, rf : {FALSE}]
    \cup [page : Pages, hasLimit : {FALSE}, limit : {0}, rf : {FALSE}]
    \cup [page : {1}, hasLimit : {FALSE}, limit : {0}, rf : {TRUE}]

NextPages ==
  \/ Tick
  \/ \E u \in {NoUser, 2} :
        CreateOrder(Request(GoodItems(1), GoodTotal(1), u), FALSE, FALSE, FALSE)
  \/ \E id \in OrderIds : UpdateOrderStatus(Admin, id, "cancelled", FALSE, FALSE)
  \/ \E st \in {"", "cancelled"}, q \in PageInputs :
        GetAllOrders(Admin, st, q.page, q.hasLimit, q.limit, q.rf)
  \/ \E q \in PageInputs : GetMyOrders(Customer, q.page, q.hasLimit, q.limit, q.rf)
  \/ \E cat \in {"", "UI"}, q \in PageInputs :
        GetProducts(cat, q.page, q.hasLimit, q.limit, q.rf)
  \/ GetProducts("All", 1, TRUE, 1, FALSE)

SpecPages == Init /\ [][NextPages]_vars

\* the position a record of f takes when f is ordered newest first, records
\* of the same date keeping their order
Rank(f, i) ==
  1 + Cardinality({j \in 1..Len(f) :
                     \/ f[j].createdAt > f[i].createdAt
                     \/ (f[j].createdAt = f[i].createdAt /\ j < i)})

NewestFirst(f) ==
  [r \in 1..Len(f) |-> f[CHOOSE i \in 1..Len(f) : Rank(f, i) = r]]

\* the filtered, sorted sequence a list response is cut from
Listed ==
  LET readOrders == IF "orders" \in lastRead THEN << >> ELSE orders
      readProducts == IF "products" \in lastRead THEN << >> ELSE products
      hasStatus(o) == o.status = resp.param
      ofCaller(o) == o.userId = resp.caller.userId
      inCategory(p) == Lower(p.category) = Lower(resp.param)
  IN CASE resp.op = "listOrders" ->
            NewestFirst(IF resp.param = "" THEN readOrders
                        ELSE SelectSeq(readOrders, hasStatus))
       [] resp.op = "myOrders" -> NewestFirst(SelectSeq(readOrders, ofCaller))
       [] resp.op = "listProducts" ->
            IF resp.param \in {"", "All"} THEN readProducts
            ELSE SelectSeq(readProducts, inCategory)

\* the least number of pages of the given size that hold n records
PagesFor(n, size) ==
  CHOOSE k \in 0..n : k * size >= n /\ \A j \in 0..(k - 1) : j * size < n

IsPage == resp.op \in {"listOrders", "myOrders", "listProducts"} /\ resp.code = 200

\* C10: a list response for page >= 1 and page size >= 1 holds the records
\* at positions (page-1)*size .. (page-1)*size+size of the filtered, sorted
\* sequence (none when the page is beyond the last), with total = n and
\* totalPages = ceil(n / size).
C10_PageOfListed ==
  (IsPage /\ resp.page >= 1 /\ resp.pageSize >= 1) =>
    LET n == Len(Listed)
        offset == (resp.page - 1) * resp.pageSize
        count == IF offset >= n THEN 0 ELSE Min(resp.pageSize, n - offset)
    IN /\ resp.total = n
       /\ resp.totalPages = [kind |-> "num", n |-> PagesFor(n, resp.pageSize)]
       /\ Len(resp.recs) = count
       /\ \A i \in 1..count : resp.recs[i] = Listed[offset + i]

\* the page after the last one of two orders created at different times,
\* listed one per page
C10_Witness ==
  /\ resp.op = "listOrders" /\ resp.code = 200
  /\ resp.page = 3 /\ resp.pageSize = 1
  /\ Len(orders) = 2
  /\ orders[1].createdAt < orders[2].createdAt
  /\ resp.total = 2
  /\ resp.recs = << >>

\* C11: a list query of page size 0 is not answered with a page, and no
\* page that is answered carries a totalPages that came from a division by
\* zero (Infinity or NaN).
C11_ZeroPageSizeRejected ==
  IsPage => /\ resp.pageSize # 0
            /\ resp.totalPages.kind = "num"

\* C12: every stored line item has a quantity that is a positive whole
\* number of pieces, and a create whose request holds an item of another
\* quantity is answered 400.
C12_WholeQuantities ==
  /\ \A k \in 1..Len(orders) : \A i \in 1..Len(orders[k].items) :
       /\ orders[k].items[i].quantity > 0
       /\ orders[k].items[i].quantity % QtyUnit = 0
  /\ (IsCreate /\ \E i \in 1..Len(resp.req.items) :
                     \/ ~resp.req.items[i].hasQty
                     \/ resp.req.items[i].quantity <= 0
                     \/ resp.req.items[i].quantity % QtyUnit # 0)
       => resp.code = 400

-----------------------------------------------------------------------------
(* The catalog under the admin product routes, from an empty products file *)

InitCatalog ==
  /\ products = << >>
  /\ orders = << >>
  /\ now = FirstNow
  /\ resp = Reply("none", 0, "")
  /\ lastRead = {}
  /\ lastWrite = "none"
  /\ users = << >>
  /\ registering = << >>

NameInputs == {"a", "A", "b", ""}
PriceInputs == {2, 0, -2}

NextCatalog ==
  \/ Tick
  \/ \E c \in {Admin, Customer}, n \in NameInputs, p \in PriceInputs,
        cat \in {"ui", ""}, f \in StoreFaults :
        CreateProduct(c, n, p, cat, f.rf, f.wf)
  \/ \E c \in {Admin, Customer}, id \in ProductIds, n \in NameInputs,
        p \in PriceInputs, f \in StoreFaults :
        UpdateProduct(c, id, n, p, "", f.rf, f.wf)
  \/ \E c \in {Admin, Customer}, id \in ProductIds, f \in StoreFaults :
        DeleteProduct(c, id, f.rf, f.wf)

SpecCatalog == InitCatalog /\ [][NextCatalog]_vars

\* C7: no two products of the catalog share a name under case-insensitive
\* comparison.
C7_UniqueNames ==
  \A i, j \in 1..Len(products) :
     i # j => Lower(products[i].name) # Lower(products[j].name)

-----------------------------------------------------------------------------
(* The users under register and profile update *)

UserIds == FirstNow..MaxClock
EmailInputs == {"a", "A", "b"}

\* a registration with every field, and one that fails each field check
Registrations ==
  [name : {"n"}, email : EmailInputs, passwordLength : {MinPasswordLength},
   rf : BOOLEAN]
    \cup {[name |-> "", email |-> "a", passwordLength |-> MinPasswordLength, rf |-> FALSE],
          [name |-> "n", email |-> "", passwordLength |-> MinPasswordLength, rf |-> FALSE],
          [name |-> "n", email |-> "a", passwordLength |-> 0, rf |-> FALSE],
          [name |-> "n", email |-> "a", passwordLength |-> MinPasswordLength - 1,
           rf |-> FALSE]}

\* what a profile update sends: a new address with the name left out, with
\* each storage fault for one of them
ProfileInputs ==
  [name : {""}, email : EmailInputs, f : {[rf |-> FALSE, wf |-> FALSE]}]
    \cup [name : {""}, email : {"b"}, f : StoreFaults]

\* the holder of a token: a user that is stored
TokenHolders ==
  {[role |-> users[k].role, userId |-> users[k].id] : k \in 1..Len(users)}

NextUsers ==
  \/ Tick
  \/ \E r \in Registrations : RegisterBegin(r.name, r.email, r.passwordLength, r.rf)
  \/ \E i \in 1..MaxRegistering, wf \in BOOLEAN : RegisterFinish(i, wf)
  \/ \E c \in TokenHolders, q \in ProfileInputs :
        UpdateProfile(c, q.name, q.email, q.f.rf, q.f.wf)

SpecUsers == Init /\ [][NextUsers]_vars

\* C13: no two stored users share an address under case-insensitive
\* comparison.
C13_UniqueEmails ==
  \A i, j \in 1..Len(users) :
     i # j => Lower(users[i].email) # Lower(users[j].email)

====
